---- MODULE Spec2Model ----
(***************************************************************************)
(* A model of nih_reporter_search.py: the NIHReporterSearcher class and    *)
(* main().  Strings that the program inspects character by character       *)
(* (person names) are sequences of one-character strings; numbers are      *)
(* integers (the program's floats are only added and compared with 0).     *)
(***************************************************************************)
EXTENDS Integers, Sequences, FiniteSets, TLC

VARIABLES
    pc,            \* position of main() / search_names_from_yaml()
    yaml_file,     \* the input resource handed to search_names_from_yaml
    names,         \* data.get('names', []) once loaded
    idx,           \* 1-based position of the for-loop over names
    in_flight,     \* queries posted and not yet resolved
    responses,     \* how each query ended and how many records it gave, in order
    queries,       \* every clean_name passed to search_person, in order
    results,       \* the dict built inside search_names_from_yaml
    returned,      \* the dict main() receives from search_names_from_yaml
    written,       \* the output files written so far, in order
    json_out,      \* what json.dump wrote
    csv_rows,      \* rows written by create_summary_csv
    xlsx_rows,     \* rows written by create_summary_excel
    today,         \* datetime.now().date() read by the summary writers
    exception,     \* the exception that escaped main(), "" if none
    args,          \* the parsed command line: yaml_file and --output
    fs,            \* the files written: each path and what it holds now
    name_in,       \* argument of the name helpers (SpecName)
    clean_out,     \* clean_name computed from name_in
    fmt_out,       \* _format_name_last_first(name_in)
    raw_in,        \* argument of process_funding_data (SpecNorm)
    norm_out       \* its outcome

vars == <<pc, yaml_file, names, idx, in_flight, responses, queries, results, returned,
          written, json_out, csv_rows, xlsx_rows, today, exception,
          args, fs, name_in, clean_out, fmt_out, raw_in, norm_out>>

mainVars == <<pc, yaml_file, names, idx, in_flight, responses, queries, results, returned,
              written, json_out, csv_rows, xlsx_rows, today, exception,
              args, fs>>
nameVars == <<name_in, clean_out, fmt_out>>
normVars == <<raw_in, norm_out>>

-----------------------------------------------------------------------------
(* Bounds                                                                  *)

MaxNameLen == 5      \* longest name given to the name helpers
MaxNames == 2        \* longest list of names in the input resource
MaxRecords == 2      \* most records in one API response
MaxRaw == 2          \* most records given to process_funding_data alone
MaxProjects == 2     \* most projects of the person the summary is built for

-----------------------------------------------------------------------------
(* Characters and strings                                                  *)

Alphabet == {"a", "b", ".", " ", "\t"}

\* Python compares str values by code point.
CodePoint(c) ==
    CASE c = "\t" -> 9
      [] c = " "  -> 32
      [] c = ","  -> 44
      [] c = "."  -> 46
      [] c = "A"  -> 65
      [] c = "B"  -> 66
      [] c = "a"  -> 97
      [] c = "b"  -> 98

\* str.isspace() for the characters above: what str.split() and str.strip()
\* treat as separators.
IsSpace(c) == c \in {" ", "\t"}

RECURSIVE StrLess(_, _)
\* s < t for two str values (lexicographic, a proper prefix is smaller).
StrLess(s, t) ==
    IF t = <<>> THEN FALSE
    ELSE IF s = <<>> THEN TRUE
    ELSE IF CodePoint(Head(s)) # CodePoint(Head(t))
         THEN CodePoint(Head(s)) < CodePoint(Head(t))
    ELSE StrLess(Tail(s), Tail(t))

StrLeq(s, t) == s = t \/ StrLess(s, t)

\* All strings over Alphabet of length at most n.
Strings(n) == UNION {[1..k -> Alphabet] : k \in 0..n}

RECURSIVE Split(_)
\* str.split() with no argument: the maximal runs of non-whitespace.
Split(s) ==
    IF s = <<>> THEN <<>>
    ELSE IF IsSpace(Head(s)) THEN Split(Tail(s))
    ELSE LET rest == Split(Tail(s))
         IN  IF Len(s) > 1 /\ ~IsSpace(s[2])
             THEN <<(<<Head(s)>> \o Head(rest))>> \o Tail(rest)
             ELSE <<(<<Head(s)>>)>> \o rest

RECURSIVE Join(_)
\* ' '.join(parts)
Join(parts) ==
    IF parts = <<>> THEN <<>>
    ELSE IF Len(parts) = 1 THEN parts[1]
    ELSE parts[1] \o <<" ">> \o Join(Tail(parts))

\* name.replace('.', '')
RemovePeriods(s) == SelectSeq(s, LAMBDA c : c # ".")

RECURSIVE CollapseAll(_)
\* A full normalisation of runs of spaces (not what the program does).
CollapseAll(s) ==
    IF Len(s) < 2 THEN s
    ELSE IF s[1] = " " /\ s[2] = " " THEN CollapseAll(Tail(s))
    ELSE <<s[1]>> \o CollapseAll(Tail(s))

RECURSIVE CollapsePairs(_)
\* s.replace('  ', ' '): one left-to-right scan over non-overlapping matches.
CollapsePairs(s) ==
    IF Len(s) < 2 THEN s
    ELSE IF s[1] = " " /\ s[2] = " "
         THEN <<" ">> \o CollapsePairs(SubSeq(s, 3, Len(s)))
    ELSE <<s[1]>> \o CollapsePairs(Tail(s))

\* clean_name = name.replace('.', '').replace('  ', ' ')
CleanName(name) == CollapsePairs(RemovePeriods(name))

\* get_last_name, the sort key of _sort_results_by_last_name.
get_last_name(name) ==
    LET parts == Split(name)
    IN  IF parts = <<>> THEN <<>> ELSE parts[Len(parts)]

\* A variant that puts the surname after the given names.
FormatFirstLast(name) ==
    LET parts == Split(name)
    IN  IF Len(parts) < 2 THEN name
        ELSE Join(SubSeq(parts, 1, Len(parts) - 1)) \o <<",", " ">>
                 \o parts[Len(parts)]

_format_name_last_first(name) ==
    LET parts == Split(name)
    IN  IF Len(parts) < 2 THEN name
        ELSE parts[Len(parts)] \o <<",", " ">>
                 \o Join(SubSeq(parts, 1, Len(parts) - 1))

-----------------------------------------------------------------------------
(* JSON values of the API records                                          *)

\* A str value as the date code sees it: the pattern its text matches
\* ("datetime": Y-m-dTH:M:S, "date": Y-m-d, "other": neither, such as 'N/A',
\* "empty": '') and the numbers written in it.
DateTimeStr(y, m, d, hh, mm, ss) ==
    [shape |-> "datetime", y |-> y, m |-> m, d |-> d,
     hh |-> hh, mm |-> mm, ss |-> ss]
DateStr(y, m, d) ==
    [shape |-> "date", y |-> y, m |-> m, d |-> d, hh |-> 0, mm |-> 0, ss |-> 0]
OtherStr ==
    [shape |-> "other", y |-> 0, m |-> 0, d |-> 0, hh |-> 0, mm |-> 0, ss |-> 0]
EmptyStr ==
    [shape |-> "empty", y |-> 0, m |-> 0, d |-> 0, hh |-> 0, mm |-> 0, ss |-> 0]

\* A field of a record: missing key, JSON null, a number or a string.
Absent == [kind |-> "absent", num |-> 0, str |-> EmptyStr]
Null == [kind |-> "null", num |-> 0, str |-> EmptyStr]
Num(n) == [kind |-> "num", num |-> n, str |-> EmptyStr]
Str(s) == [kind |-> "str", num |-> 0, str |-> s]

\* bool(v)
Truthy(v) ==
    \/ v.kind = "num" /\ v.num # 0
    \/ v.kind = "str" /\ v.str.shape # "empty"

\* dict.get(key, default) on a field
Get(v, default) == IF v.kind = "absent" THEN default ELSE v

\* a or b
Or(a, b) == IF Truthy(a) THEN a ELSE b

RawRecord(bs, be, ps, pe, dc, ic, aw) ==
    [budget_start |-> bs, budget_end |-> be,
     project_start_date |-> ps, project_end_date |-> pe,
     direct_cost_amt |-> dc, indirect_cost_amt |-> ic, award_amount |-> aw]

-----------------------------------------------------------------------------
(* process_funding_data                                                    *)

\* The total-cost rule with the award ignored.
SumOnlyTotalCosts(award_amount, direct_costs, indirect_costs) ==
    direct_costs + indirect_costs

\* project_total_costs of one project whose three amounts are numbers.
ProjectTotalCosts(award_amount, direct_costs, indirect_costs) ==
    IF award_amount > 0 THEN award_amount
    ELSE direct_costs + indirect_costs

\* A date field that keeps only text shaped like one of the two formats.
DateFieldCanonical(budget, general) ==
    LET v == Or(Get(budget, Str(EmptyStr)), Get(general, Str(EmptyStr)))
    IN  IF v.kind = "str" /\ v.str.shape \notin {"datetime", "date"}
        THEN Str(EmptyStr) ELSE v

\* project.get('budget_start', '') or project.get('project_start_date', '')
\* and the same for the end: the budget field when it is truthy, else
\* whatever the second get returns.
DateField(budget, general) ==
    Or(Get(budget, Str(EmptyStr)), Get(general, Str(EmptyStr)))

\* One iteration of the loop of process_funding_data: raised tells whether
\* the iteration raised TypeError, project is the dict it appended.
NormalizeProject(project) ==
    LET start_date == DateField(project.budget_start, project.project_start_date)
        end_date == DateField(project.budget_end, project.project_end_date)
        direct_costs == Or(Get(project.direct_cost_amt, Num(0)), Num(0))
        indirect_costs == Or(Get(project.indirect_cost_amt, Num(0)), Num(0))
        award_amount == Or(Get(project.award_amount, Num(0)), Num(0))
        \* award_amount > 0 on a str raises
        cmp_raises == award_amount.kind = "str"
        use_award == ~cmp_raises /\ award_amount.num > 0
        \* direct_costs + indirect_costs raises for a str and a number
        \* (two str concatenate)
        add_raises == ~cmp_raises /\ ~use_award
                      /\ direct_costs.kind # indirect_costs.kind
        \* total_direct_costs += direct_costs raises for a str
        acc_raises == direct_costs.kind = "str"
        total == ProjectTotalCosts(award_amount.num, direct_costs.num,
                                   indirect_costs.num)
    IN  [raised |-> cmp_raises \/ add_raises \/ acc_raises,
         project |->
            [start_date |-> start_date,
             end_date |-> end_date,
             budget_start_date |-> Get(project.budget_start, Str(EmptyStr)),
             budget_end_date |-> Get(project.budget_end, Str(EmptyStr)),
             project_start_date |-> Get(project.project_start_date, Str(EmptyStr)),
             project_end_date |-> Get(project.project_end_date, Str(EmptyStr)),
             direct_costs |-> direct_costs,
             indirect_costs |-> indirect_costs,
             award_amount |-> award_amount,
             total_costs |-> Num(total)]]

RECURSIVE ProcessLoop(_, _)
\* The for-loop of process_funding_data from the accumulators acc over the
\* records still to come.
ProcessLoop(projects, acc) ==
    IF projects = <<>> \/ acc.raised THEN acc
    ELSE LET r == NormalizeProject(Head(projects))
         IN  IF r.raised
             THEN [acc EXCEPT !.raised = TRUE]
             ELSE ProcessLoop(Tail(projects),
                    [raised |-> FALSE,
                     total_direct_costs |->
                         acc.total_direct_costs + r.project.direct_costs.num,
                     total_costs |-> acc.total_costs + r.project.total_costs.num,
                     projects |-> Append(acc.projects, r.project)])

\* process_funding_data(projects): the returned dict, or raised = TRUE when
\* a TypeError escaped.
process_funding_data(projects) ==
    LET acc == ProcessLoop(projects,
                   [raised |-> FALSE, total_direct_costs |-> 0,
                    total_costs |-> 0, projects |-> <<>>])
    IN  [raised |-> acc.raised,
         total_direct_costs |-> acc.total_direct_costs,
         total_costs |-> acc.total_costs,
         project_count |-> Len(acc.projects),
         projects |-> acc.projects]

-----------------------------------------------------------------------------
(* Dates: datetime.strptime and the two summary metrics                    *)

IsLeap(y) == (y % 4 = 0 /\ y % 100 # 0) \/ y % 400 = 0

DaysInMonth(y, m) ==
    IF m = 2 THEN (IF IsLeap(y) THEN 29 ELSE 28)
    ELSE IF m \in {4, 6, 9, 11} THEN 30 ELSE 31

\* datetime.strptime(s, fmt) for fmt '%Y-%m-%dT%H:%M:%S' ("datetime") or
\* '%Y-%m-%d' ("date"): ok = FALSE stands for ValueError (the text does not
\* match the whole format, or names no real date or time).
strptime(s, fmt) ==
    [ok |-> /\ s.shape = fmt
            /\ s.y \in 1..9999
            /\ s.m \in 1..12
            /\ s.d \in 1..DaysInMonth(s.y, s.m)
            /\ s.hh \in 0..23 /\ s.mm \in 0..59 /\ s.ss \in 0..59,
     y |-> s.y, m |-> s.m, d |-> s.d, hh |-> s.hh, mm |-> s.mm, ss |-> s.ss]

\* a parser that knows the date-only format alone
ParseDateOnly(s) == strptime(s, "date")

\* The nested try blocks of the summary writers: the date-and-time format,
\* on ValueError the date-only format, on ValueError again ok = FALSE
\* (continue).
ParseDate(s) ==
    IF strptime(s, "datetime").ok THEN strptime(s, "datetime")
    ELSE strptime(s, "date")

\* a <= b on datetime.date values
DateLeq(a, b) ==
    \/ a.y < b.y
    \/ a.y = b.y /\ a.m < b.m
    \/ a.y = b.y /\ a.m = b.m /\ a.d <= b.d

\* a > b on datetime values
DateTimeGreater(a, b) ==
    LET ka == <<a.y, a.m, a.d, a.hh, a.mm, a.ss>>
        kb == <<b.y, b.m, b.d, b.hh, b.mm, b.ss>>
    IN  \E i \in 1..6 : ka[i] > kb[i] /\ \A j \in 1..(i - 1) : ka[j] = kb[j]

\* A test that leaves out the day the project ends.
ActiveExclusive(project, day) ==
    /\ Truthy(project.start_date) /\ Truthy(project.end_date)
    /\ ParseDate(project.start_date.str).ok
    /\ ParseDate(project.end_date.str).ok
    /\ DateLeq(ParseDate(project.start_date.str), day)
    /\ ~DateLeq(ParseDate(project.end_date.str), day)

\* Whether the loop over projects counts this one as active on day: both
\* dates truthy, both parse, project_start <= today <= project_end.
IsActive(project, day) ==
    /\ Truthy(project.start_date) /\ Truthy(project.end_date)
    /\ ParseDate(project.start_date.str).ok
    /\ ParseDate(project.end_date.str).ok
    /\ DateLeq(ParseDate(project.start_date.str), day)
    /\ DateLeq(day, ParseDate(project.end_date.str))

RECURSIVE CurrentFunding(_, _)
\* current_direct, current_total and current_project_count after the loop
\* over projects.
CurrentFunding(projects, day) ==
    IF projects = <<>>
    THEN [current_direct |-> 0, current_total |-> 0, current_project_count |-> 0]
    ELSE LET n == Len(projects)
             acc == CurrentFunding(SubSeq(projects, 1, n - 1), day)
             project == projects[n]
         IN  IF IsActive(project, day)
             THEN [current_direct |-> acc.current_direct + project.direct_costs.num,
                   current_total |-> acc.current_total + project.total_costs.num,
                   current_project_count |-> acc.current_project_count + 1]
             ELSE acc

RECURSIVE LatestEndDate(_)
\* latest_end_date after the loop over projects: found = FALSE stands for
\* None.
LatestEndDate(projects) ==
    IF projects = <<>> THEN [found |-> FALSE, date |-> strptime(EmptyStr, "date")]
    ELSE LET n == Len(projects)
             acc == LatestEndDate(SubSeq(projects, 1, n - 1))
             end_date == projects[n].end_date
             parsed == ParseDate(end_date.str)
         IN  IF Truthy(end_date) /\ parsed.ok
                /\ (~acc.found \/ DateTimeGreater(parsed, acc.date))
             THEN [found |-> TRUE, date |-> parsed]
             ELSE acc

\* The value of the Most_Recent_Year column: a year, or 'N/A'.
NotAvailable == [is_year |-> FALSE, year |-> 0]
Year(y) == [is_year |-> TRUE, year |-> y]

MostRecentYear(projects) ==
    LET latest == LatestEndDate(projects)
    IN  IF latest.found /\ latest.date.y # 0 THEN Year(latest.date.y)
        ELSE NotAvailable

-----------------------------------------------------------------------------
(* The result dict, its sort and the summary rows                          *)

\* A dict is the sequence of its items in insertion order, keys distinct.
HasKey(d, name) == \E i \in 1..Len(d) : d[i].name = name

\* d[name] = data: a new key goes last, an old key keeps its place.
DictSet(d, name, data) ==
    IF HasKey(d, name)
    THEN [i \in 1..Len(d) |->
            IF d[i].name = name THEN [name |-> name, data |-> data] ELSE d[i]]
    ELSE Append(d, [name |-> name, data |-> data])

RECURSIVE SortTiesReversed(_)
\* A sort that puts an item before the items of equal key already placed.
SortTiesReversed(items) ==
    IF items = <<>> THEN <<>>
    ELSE LET n == Len(items)
             front == SortTiesReversed(SubSeq(items, 1, n - 1))
             key == get_last_name(items[n].name)
             pos == Cardinality({i \in 1..Len(front) :
                        StrLess(get_last_name(front[i].name), key)})
         IN  SubSeq(front, 1, pos) \o <<items[n]>>
                 \o SubSeq(front, pos + 1, Len(front))

RECURSIVE _sort_results_by_last_name(_)
\* dict(sorted(results.items(), key=get_last_name)): sorted() is stable, so
\* an item goes after every item placed before it whose key is <= its own.
_sort_results_by_last_name(items) ==
    IF items = <<>> THEN <<>>
    ELSE LET n == Len(items)
             front == _sort_results_by_last_name(SubSeq(items, 1, n - 1))
             key == get_last_name(items[n].name)
             pos == Cardinality({i \in 1..Len(front) :
                        StrLeq(get_last_name(front[i].name), key)})
         IN  SubSeq(front, 1, pos) \o <<items[n]>>
                 \o SubSeq(front, pos + 1, Len(front))

\* The row the summary writers build for one person (create_summary_csv
\* writes the amounts with two decimals, create_summary_excel as numbers).
SummaryRow(name, data, day) ==
    LET current == CurrentFunding(data.projects, day)
    IN  [Name |-> _format_name_last_first(name),
         Total_Direct_Costs |-> data.total_direct_costs,
         Total_Costs |-> data.total_costs,
         Most_Recent_Year |-> MostRecentYear(data.projects),
         Total_Projects |-> data.total_projects,
         Current_Direct_Costs |-> current.current_direct,
         Current_Total_Costs |-> current.current_total,
         Current_Projects |-> current.current_project_count]

\* The rows written for a result dict, in the order written.
SummaryRows(d, day) ==
    LET sorted_results == _sort_results_by_last_name(d)
    IN  [i \in 1..Len(sorted_results) |->
            SummaryRow(sorted_results[i].name, sorted_results[i].data, day)]

\* A summary whose two totals are stored under each other's key.
PersonSummarySwapped(processed_data, clean_name) ==
    [total_projects |-> processed_data.project_count,
     total_direct_costs |-> processed_data.total_costs,
     total_costs |-> processed_data.total_direct_costs,
     projects |-> processed_data.projects,
     search_name_used |-> clean_name]

\* results[name] = {...}: the PersonSummary stored for one name (the
\* timestamp and the organization filter are left out).
PersonSummary(processed_data, clean_name) ==
    [total_projects |-> processed_data.project_count,
     total_direct_costs |-> processed_data.total_direct_costs,
     total_costs |-> processed_data.total_costs,
     projects |-> processed_data.projects,
     search_name_used |-> clean_name]

-----------------------------------------------------------------------------
(* search_person                                                           *)

\* How a POST can end: requests raises ConnectionError or, from
\* raise_for_status, HTTPError; response.json() raises JSONDecodeError; or
\* the body decodes to an object, with or without a 'results' key.
Failed(kind) == kind \in {"connection_error", "http_error", "invalid_json"}

\* A search_person without the except clauses.
SearchPersonUncaught(response) ==
    [raised |-> Failed(response.kind),
     projects |-> IF response.kind = "ok" /\ response.has_results
                  THEN response.results ELSE <<>>]

\* search_person: both except clauses return [], data.get('results', [])
\* otherwise; nothing is re-raised.
search_person(response) ==
    [raised |-> FALSE,
     projects |-> IF Failed(response.kind) THEN <<>>
                  ELSE IF response.has_results THEN response.results
                  ELSE <<>>]

-----------------------------------------------------------------------------
(* Output paths of main                                                    *)

\* A path is the sequence of its pieces: "d/" a directory with its slash,
\* names and suffixes such as "out", "_results", and extensions ".yaml",
\* ".json", ".txt", ".csv", ".xlsx".  No piece is the start of another, so
\* two paths are the same text exactly when they are the same sequence.
IsDirPiece(t) == t = "d/"
IsExtPiece(t) == t \in {".yaml", ".json", ".txt", ".csv", ".xlsx"}

\* os.path.basename: what follows the last slash.
basename(path) ==
    LET dirs == {i \in 1..Len(path) : IsDirPiece(path[i])}
        last == IF dirs = {} THEN 0
                ELSE CHOOSE i \in dirs : \A j \in dirs : j <= i
    IN  SubSeq(path, last + 1, Len(path))

\* os.path.splitext(name)[0]: the name without its last extension (a name
\* that is only an extension keeps it).
splitext_root(name) ==
    IF Len(name) >= 2 /\ IsExtPiece(name[Len(name)])
    THEN SubSeq(name, 1, Len(name) - 1)
    ELSE name

RECURSIVE ReplaceJson(_, _)
\* path.replace('.json', suffix): every '.json' of the path, not only a
\* final one; a path without '.json' comes back as it is.
ReplaceJson(path, suffix) ==
    IF path = <<>> THEN <<>>
    ELSE IF Head(path) = ".json" THEN suffix \o ReplaceJson(Tail(path), suffix)
    ELSE <<Head(path)>> \o ReplaceJson(Tail(path), suffix)

\* output_file: args.output if given, else "<yaml basename>_results.json"
OutputFile(a) ==
    IF a.output # <<>> THEN a.output
    ELSE splitext_root(basename(a.yaml_file)) \o <<"_results", ".json">>

\* summary_file = output_file.replace('.json', '_summary.csv')
SummaryFile(output_file) == ReplaceJson(output_file, <<"_summary", ".csv">>)

\* excel_file = output_file.replace('.json', '_summary.xlsx')
ExcelFile(output_file) == ReplaceJson(output_file, <<"_summary", ".xlsx">>)

\* open(path, 'w') and the write that follows: the file now holds what this
\* writer wrote, whatever it held before.
FsWrite(files, path, kind) ==
    IF \E i \in 1..Len(files) : files[i].path = path
    THEN [i \in 1..Len(files) |->
            IF files[i].path = path THEN [path |-> path, holds |-> kind]
            ELSE files[i]]
    ELSE Append(files, [path |-> path, holds |-> kind])

Args(yaml_path, output) == [yaml_file |-> yaml_path, output |-> output]

\* The command line of the runs followed from start to end.
RunArgs == Args(<<"names", ".yaml">>, <<>>)

-----------------------------------------------------------------------------
(* search_names_from_yaml and main                                         *)

\* with open(yaml_file) ... yaml.safe_load(f); data.get('names', []);
\* if not names.  outcome: "iterate" (the loop runs over names), "empty"
\* (No names found), "FileNotFoundError" and "YAMLError" (caught, return {}),
\* "AttributeError" (data has no get) and "TypeError" (names cannot be
\* iterated), which no except clause catches.
LoadNames(y) ==
    CASE y.kind = "missing" -> [outcome |-> "FileNotFoundError", names |-> <<>>]
      [] y.kind = "invalid" -> [outcome |-> "YAMLError", names |-> <<>>]
      [] y.kind \in {"null", "list", "scalar"} ->
            [outcome |-> "AttributeError", names |-> <<>>]
      [] y.kind = "mapping" /\ y.key \in {"absent", "null"} ->
            [outcome |-> "empty", names |-> <<>>]
      [] y.kind = "mapping" /\ y.key = "list" ->
            IF y.list = <<>> THEN [outcome |-> "empty", names |-> <<>>]
            ELSE [outcome |-> "iterate", names |-> y.list]
      [] y.kind = "mapping" /\ y.key = "str" ->
            IF y.text = <<>> THEN [outcome |-> "empty", names |-> <<>>]
            ELSE [outcome |-> "iterate",
                  names |-> [i \in 1..Len(y.text) |-> <<y.text[i]>>]]
      [] y.kind = "mapping" /\ y.key = "num" ->
            IF y.num = 0 THEN [outcome |-> "empty", names |-> <<>>]
            ELSE [outcome |-> "TypeError", names |-> <<>>]

\* search_names_from_yaml up to the for-loop.
OpenYaml ==
    /\ pc = "start"
    /\ LET loaded == LoadNames(yaml_file)
       IN  /\ names' = loaded.names
           /\ pc' = CASE loaded.outcome = "iterate" -> "loop"
                      [] loaded.outcome \in {"AttributeError", "TypeError"} ->
                            "crashed"
                      [] OTHER -> "returned"
           /\ exception' = IF loaded.outcome \in {"AttributeError", "TypeError"}
                           THEN loaded.outcome ELSE ""
    /\ UNCHANGED <<yaml_file, idx, in_flight, responses, queries, results,
                   returned, written, json_out, csv_rows, xlsx_rows, today>>
    /\ UNCHANGED <<args, fs, nameVars, normVars>>

\* A loop that sends the next query while the last one is still out.
PostQueryPipelined ==
    /\ pc \in {"loop", "waiting"}
    /\ Len(queries) < Len(names)
    /\ LET clean_name == CleanName(names[Len(queries) + 1])
       IN  /\ queries' = Append(queries, clean_name)
           /\ in_flight' = Append(in_flight, clean_name)
    /\ pc' = "waiting"
    /\ UNCHANGED <<yaml_file, names, idx, responses, results, returned, written,
                   json_out, csv_rows, xlsx_rows, today, exception>>
    /\ UNCHANGED <<args, fs, nameVars, normVars>>

\* One pass of the loop up to session.post: clean the name, send the query.
PostQuery ==
    /\ pc = "loop"
    /\ idx <= Len(names)
    /\ LET clean_name == CleanName(names[idx])
       IN  /\ queries' = Append(queries, clean_name)
           /\ in_flight' = Append(in_flight, clean_name)
    /\ pc' = "waiting"
    /\ UNCHANGED <<yaml_file, names, idx, responses, results, returned, written,
                   json_out, csv_rows, xlsx_rows, today, exception>>
    /\ UNCHANGED <<args, fs, nameVars, normVars>>

\* The rest of the pass: the response or the failure arrives, search_person
\* returns, process_funding_data runs and results[name] is stored.
ResolveQuery(response) ==
    /\ pc = "waiting"
    /\ LET found == search_person(response)
           processed_data == process_funding_data(found.projects)
           name == names[idx]
       IN  IF found.raised \/ processed_data.raised
           THEN /\ pc' = "crashed"
                /\ exception' = IF found.raised THEN "RequestException"
                                ELSE "TypeError"
                /\ UNCHANGED <<results, idx>>
           ELSE /\ results' = DictSet(results, name,
                                  PersonSummary(processed_data, queries[idx]))
                /\ idx' = idx + 1
                /\ pc' = "loop"
                /\ UNCHANGED exception
    /\ in_flight' = <<>>
    /\ responses' = Append(responses,
            [kind |-> response.kind,
             n_records |-> Len(search_person(response).projects)])
    /\ UNCHANGED <<yaml_file, names, queries, returned, written, json_out,
                   csv_rows, xlsx_rows, today>>
    /\ UNCHANGED <<args, fs, nameVars, normVars>>

\* return self._sort_results_by_last_name(results)
ReturnSorted ==
    /\ pc = "loop"
    /\ idx > Len(names)
    /\ returned' = _sort_results_by_last_name(results)
    /\ pc' = "returned"
    /\ UNCHANGED <<yaml_file, names, idx, in_flight, responses, queries, results,
                   written, json_out, csv_rows, xlsx_rows, today, exception>>
    /\ UNCHANGED <<args, fs, nameVars, normVars>>

\* main: if results: json.dump(results, f)
WriteJson ==
    /\ pc = "returned"
    /\ returned # <<>>
    /\ json_out' = returned
    /\ written' = Append(written, "json")
    /\ pc' = "json_written"
    /\ UNCHANGED <<yaml_file, names, idx, in_flight, responses, queries, results,
                   returned, csv_rows, xlsx_rows, today, exception>>
    /\ fs' = FsWrite(fs, OutputFile(args), "json")
    /\ UNCHANGED <<args, nameVars, normVars>>

\* main: else: print("No results found")
NoResults ==
    /\ pc = "returned"
    /\ returned = <<>>
    /\ pc' = "done"
    /\ UNCHANGED <<yaml_file, names, idx, in_flight, responses, queries, results,
                   returned, written, json_out, csv_rows, xlsx_rows, today,
                   exception>>
    /\ UNCHANGED <<args, fs, nameVars, normVars>>

\* create_summary_csv(results, summary_file)
CreateSummaryCsv ==
    /\ pc = "json_written"
    /\ csv_rows' = SummaryRows(returned, today)
    /\ written' = Append(written, "csv")
    /\ pc' = "csv_written"
    /\ UNCHANGED <<yaml_file, names, idx, in_flight, responses, queries, results,
                   returned, json_out, xlsx_rows, today, exception>>
    /\ fs' = FsWrite(fs, SummaryFile(OutputFile(args)), "csv")
    /\ UNCHANGED <<args, nameVars, normVars>>

\* create_summary_excel(results, excel_file), then the printed summary.
CreateSummaryExcel ==
    /\ pc = "csv_written"
    /\ xlsx_rows' = SummaryRows(returned, today)
    /\ written' = Append(written, "xlsx")
    /\ pc' = "done"
    /\ UNCHANGED <<yaml_file, names, idx, in_flight, responses, queries, results,
                   returned, json_out, csv_rows, today, exception>>
    /\ fs' = FsWrite(fs, ExcelFile(OutputFile(args)), "xlsx")
    /\ UNCHANGED <<args, nameVars, normVars>>

-----------------------------------------------------------------------------
(* The inputs of a run                                                     *)

\* All sequences over S of length at most n.
SeqsUpTo(S, n) == UNION {[1..k -> S] : k \in 0..n}

\* Names of the input list: two share the last token "b", two the last
\* token "a"; one has a middle initial with a period, one a double space.
NamePool ==
    { <<"b", " ", "b">>,
      <<"a", ".", " ", "b">>,
      <<"b", " ", " ", "a">> }

YamlFile(kind, key, list, text, num) ==
    [kind |-> kind, key |-> key, list |-> list, text |-> text, num |-> num]

\* The input resource: missing, not YAML, YAML that is no mapping, or a
\* mapping whose 'names' is missing, null, a list, a string or a number.
YamlFiles ==
    {YamlFile(k, "absent", <<>>, <<>>, 0) :
        k \in {"missing", "invalid", "null", "list", "scalar", "mapping"}}
    \cup {YamlFile("mapping", "null", <<>>, <<>>, 0)}
    \cup {YamlFile("mapping", "list", l, <<>>, 0) : l \in SeqsUpTo(NamePool, MaxNames)}
    \cup {YamlFile("mapping", "str", <<>>, t, 0) : t \in {<<>>, <<"a", "b">>}}
    \cup {YamlFile("mapping", "num", <<>>, <<>>, n) : n \in {0, 5}}

\* Records of the API as the run sees them: amounts and dates are numbers
\* and strings, or null, or missing.
ApiRecords ==
    { RawRecord(Str(DateTimeStr(2020, 1, 1, 0, 0, 0)),
                Str(DateTimeStr(2020, 12, 31, 0, 0, 0)),
                Absent, Absent, Num(1), Num(2), Num(4)),
      RawRecord(Absent, Null, Str(DateStr(2021, 1, 1)), Str(OtherStr),
                Num(3), Null, Absent) }

Response(kind, has_results, recs) ==
    [kind |-> kind, has_results |-> has_results, results |-> recs]

Responses ==
    {Response(k, FALSE, <<>>) :
        k \in {"connection_error", "http_error", "invalid_json", "ok"}}
    \cup {Response("ok", TRUE, recs) : recs \in SeqsUpTo(ApiRecords, MaxRecords)}

\* The day the run takes place.
RunDay == [y |-> 2020, m |-> 6, d |-> 30]

-----------------------------------------------------------------------------
(* The run of main()                                                       *)

NameIdle == name_in = <<>> /\ clean_out = <<>> /\ fmt_out = <<>>
NormIdle == raw_in = <<>> /\ norm_out = <<>>

Init ==
    /\ pc = "start"
    /\ yaml_file \in YamlFiles
    /\ names = <<>>
    /\ idx = 1
    /\ in_flight = <<>>
    /\ responses = <<>>
    /\ queries = <<>>
    /\ results = <<>>
    /\ returned = <<>>
    /\ written = <<>>
    /\ json_out = <<>>
    /\ csv_rows = <<>>
    /\ xlsx_rows = <<>>
    /\ today = RunDay
    /\ exception = ""
    /\ args = RunArgs
    /\ fs = <<>>
    /\ NameIdle
    /\ NormIdle

Next ==
    \/ OpenYaml
    \/ PostQuery
    \/ \E response \in Responses : ResolveQuery(response)
    \/ ReturnSorted
    \/ WriteJson
    \/ NoResults
    \/ CreateSummaryCsv
    \/ CreateSummaryExcel

Spec == Init /\ [][Next]_vars

-----------------------------------------------------------------------------
(* process_funding_data on its own                                         *)

MainIdle ==
    /\ pc = "idle"
    /\ yaml_file = YamlFile("missing", "absent", <<>>, <<>>, 0)
    /\ names = <<>>
    /\ idx = 1
    /\ in_flight = <<>>
    /\ responses = <<>>
    /\ queries = <<>>
    /\ results = <<>>
    /\ returned = <<>>
    /\ written = <<>>
    /\ json_out = <<>>
    /\ csv_rows = <<>>
    /\ xlsx_rows = <<>>
    /\ today = RunDay
    /\ exception = ""
    /\ args = RunArgs
    /\ fs = <<>>

\* Raw records whose amounts are missing, null, numbers (negative, zero,
\* positive) or a string that is no number.
NormRecords ==
    { RawRecord(Absent, Absent, Absent, Absent, dc, ic, aw) :
        dc \in {Absent, Num(1), Str(OtherStr)},
        ic \in {Null, Num(2), Str(OtherStr)},
        aw \in {Absent, Null, Num(0), Num(-1), Num(4), Str(OtherStr)} }

InitNorm ==
    /\ MainIdle
    /\ NameIdle
    /\ raw_in \in SeqsUpTo(NormRecords, MaxRaw)
    /\ norm_out = <<>>

\* processed_data = self.process_funding_data(projects)
Normalize ==
    /\ norm_out = <<>>
    /\ norm_out' = <<process_funding_data(raw_in)>>
    /\ UNCHANGED <<raw_in, nameVars, mainVars>>

NextNorm == Normalize

SpecNorm == InitNorm /\ [][NextNorm]_vars

-----------------------------------------------------------------------------
(* process_funding_data on records that differ in their date fields        *)

\* What a date field of a raw record can hold: nothing, null, '', a
\* date-and-time, a date, text in neither format.
DateValues ==
    {Absent, Null, Str(EmptyStr), Str(DateTimeStr(2020, 1, 1, 0, 0, 0)),
     Str(DateStr(2021, 6, 30)), Str(OtherStr)}

\* Records whose two start fields take every pair of values, and records
\* whose two end fields do.
DateRecords ==
    { RawRecord(bs, Absent, ps, Str(DateStr(2021, 6, 30)),
                Num(1), Num(2), Num(4)) : bs \in DateValues, ps \in DateValues }
    \cup
    { RawRecord(Str(DateStr(2021, 6, 30)), be, Null, pe,
                Num(1), Num(2), Num(4)) : be \in DateValues, pe \in DateValues }

InitDates ==
    /\ MainIdle
    /\ NameIdle
    /\ raw_in \in SeqsUpTo(DateRecords, MaxRaw)
    /\ norm_out = <<>>

NextDates == Normalize

SpecDates == InitDates /\ [][NextDates]_vars

-----------------------------------------------------------------------------
(* The name helpers on their own                                           *)

InitName ==
    /\ MainIdle
    /\ NormIdle
    /\ name_in \in Strings(MaxNameLen)
    /\ clean_out = <<>>
    /\ fmt_out = <<>>

\* clean_name = name.replace('.', '').replace('  ', ' ')
Clean ==
    /\ clean_out = <<>>
    /\ clean_out' = <<CleanName(name_in)>>
    /\ UNCHANGED <<name_in, fmt_out, normVars, mainVars>>

\* formatted_name = self._format_name_last_first(name)
Format ==
    /\ fmt_out = <<>>
    /\ fmt_out' = <<_format_name_last_first(name_in)>>
    /\ UNCHANGED <<name_in, clean_out, normVars, mainVars>>

NextName == Clean \/ Format

SpecName == InitName /\ [][NextName]_vars

-----------------------------------------------------------------------------
(* The summary writers on the results of one person                        *)

\* Raw records whose start is a date-and-time, a date, text that is no date
\* or missing (so start_date is ''), and whose end is a date, a
\* date-and-time, a date that does not exist (30 February), or null.
SummaryRecords ==
    { RawRecord(bs, Absent, Absent, pe, c[1], c[2], c[3]) :
        bs \in {Str(DateTimeStr(2020, 1, 1, 0, 0, 0)), Str(DateStr(2020, 6, 30)),
                Str(OtherStr), Absent},
        pe \in {Str(DateStr(2020, 6, 30)),
                Str(DateTimeStr(2021, 6, 30, 23, 59, 59)),
                Str(DateStr(2021, 2, 30)), Null},
        c \in {<<Num(1), Num(2), Num(4)>>, <<Num(3), Num(5), Absent>>} }

Todays ==
    { [y |-> 2019, m |-> 12, d |-> 31],
      [y |-> 2020, m |-> 1, d |-> 1],
      [y |-> 2020, m |-> 6, d |-> 30],
      [y |-> 2021, m |-> 6, d |-> 30],
      [y |-> 2021, m |-> 7, d |-> 1] }

SummaryName == <<"a", ".", " ", "b">>

\* main() after json.dump, for one name whose query gave recs.
InitSummary ==
    /\ NameIdle
    /\ NormIdle
    /\ \E recs \in SeqsUpTo(SummaryRecords, MaxProjects) :
          LET d == DictSet(<<>>, SummaryName,
                       PersonSummary(process_funding_data(recs),
                                     CleanName(SummaryName)))
          IN  /\ results = d
              /\ returned = _sort_results_by_last_name(d)
              /\ json_out = _sort_results_by_last_name(d)
              /\ responses = <<[kind |-> "ok", n_records |-> Len(recs)]>>
    /\ pc = "json_written"
    /\ yaml_file = YamlFile("mapping", "list", <<SummaryName>>, <<>>, 0)
    /\ names = <<SummaryName>>
    /\ idx = 2
    /\ in_flight = <<>>
    /\ queries = <<CleanName(SummaryName)>>
    /\ written = <<"json">>
    /\ csv_rows = <<>>
    /\ xlsx_rows = <<>>
    /\ today \in Todays
    /\ exception = ""
    /\ args = RunArgs
    /\ fs = FsWrite(<<>>, OutputFile(RunArgs), "json")

NextSummary == CreateSummaryCsv \/ CreateSummaryExcel

SpecSummary == InitSummary /\ [][NextSummary]_vars

-----------------------------------------------------------------------------
(* The three writers of main under every command line                      *)

\* Input paths with and without a directory, and one whose base name holds
\* '.json'.
YamlPaths ==
    { <<"names", ".yaml">>, <<"d/", "names", ".yaml">>,
      <<"names", ".json", ".yaml">> }

\* --output: not given, a name ending in '.json' (with and without a
\* directory), a name with another extension, a name with none.
OutputOptions ==
    { <<>>, <<"out", ".json">>, <<"d/", "out", ".json">>,
      <<"out", ".txt">>, <<"out">> }

OutputName == <<"b", " ", "b">>

\* main() when search_names_from_yaml has returned the results of one name.
InitOut ==
    /\ NameIdle
    /\ NormIdle
    /\ \E recs \in SeqsUpTo(ApiRecords, MaxRecords) :
          LET d == DictSet(<<>>, OutputName,
                       PersonSummary(process_funding_data(recs),
                                     CleanName(OutputName)))
          IN  /\ results = d
              /\ returned = _sort_results_by_last_name(d)
              /\ responses = <<[kind |-> "ok", n_records |-> Len(recs)]>>
    /\ \E y \in YamlPaths, o \in OutputOptions : args = Args(y, o)
    /\ pc = "returned"
    /\ yaml_file = YamlFile("mapping", "list", <<OutputName>>, <<>>, 0)
    /\ names = <<OutputName>>
    /\ idx = 2
    /\ in_flight = <<>>
    /\ queries = <<CleanName(OutputName)>>
    /\ written = <<>>
    /\ json_out = <<>>
    /\ csv_rows = <<>>
    /\ xlsx_rows = <<>>
    /\ today = RunDay
    /\ exception = ""
    /\ fs = <<>>

NextOut == WriteJson \/ CreateSummaryCsv \/ CreateSummaryExcel

SpecOut == InitOut /\ [][NextOut]_vars

-----------------------------------------------------------------------------
(* Properties                                                              *)

RECURSIVE SeqSum(_)
SeqSum(ns) == IF ns = <<>> THEN 0 ELSE Head(ns) + SeqSum(Tail(ns))

\* The amount a cost field stands for: its number, 0 when missing or null.
ReadCost(v) == IF v.kind = "num" THEN v.num ELSE 0

\* C1: every normalized project's total_costs is the record's award_amount
\* when that is a number > 0 (whatever the direct and indirect costs), and
\* direct + indirect otherwise, a missing or null amount counting as 0.
C1_TotalCostRule ==
    (norm_out # <<>> /\ ~norm_out[1].raised) =>
        /\ Len(norm_out[1].projects) = Len(raw_in)
        /\ \A i \in 1..Len(raw_in) :
              LET raw == raw_in[i]
                  total == norm_out[1].projects[i].total_costs
              IN  /\ total.kind = "num"
                  /\ total.num =
                        IF ReadCost(raw.award_amount) > 0
                        THEN raw.award_amount.num
                        ELSE ReadCost(raw.direct_cost_amt)
                                 + ReadCost(raw.indirect_cost_amt)

\* Two records were normalized: one whose award (4) differs from direct +
\* indirect (1 + 2), one without an award.
C1_Witness ==
    /\ norm_out # <<>> /\ ~norm_out[1].raised
    /\ raw_in = << RawRecord(Absent, Absent, Absent, Absent,
                             Num(1), Num(2), Num(4)),
                   RawRecord(Absent, Absent, Absent, Absent,
                             Num(1), Num(2), Absent) >>
    /\ norm_out[1].projects[1].total_costs = Num(4)
    /\ norm_out[1].projects[2].total_costs = Num(3)

\* The PersonSummary of an entry agrees with its own project list.
SummaryConsistent(data) ==
    /\ data.total_costs =
          SeqSum([k \in 1..Len(data.projects) |-> data.projects[k].total_costs.num])
    /\ data.total_direct_costs =
          SeqSum([k \in 1..Len(data.projects) |-> data.projects[k].direct_costs.num])
    /\ data.total_projects = Len(data.projects)

\* The last query sent for names[i] is query number LastQuery(i).
LastQueryFor(name) ==
    CHOOSE k \in 1..Len(responses) :
        /\ names[k] = name
        /\ \A j \in (k + 1)..Len(responses) : names[j] # name

\* C2: every stored PersonSummary has total_costs = the sum of its projects'
\* total_costs, total_direct_costs = the sum of their direct_costs, and
\* total_projects = the number of projects = the number of raw records the
\* query for that name returned.
C2_SummaryMatchesProjects ==
    /\ \A i \in 1..Len(results) :
          /\ SummaryConsistent(results[i].data)
          /\ results[i].data.total_projects
                = responses[LastQueryFor(results[i].name)].n_records
    /\ \A i \in 1..Len(returned) : SummaryConsistent(returned[i].data)

\* A person with two different projects (totals 4 and 3, direct 1 and 3),
\* and a person whose query returned nothing.
C2_Witness ==
    /\ pc = "done"
    /\ \E i \in 1..Len(returned) :
          /\ returned[i].data.total_projects = 2
          /\ returned[i].data.total_costs = 7
          /\ returned[i].data.total_direct_costs = 4
    /\ \E i \in 1..Len(returned) : returned[i].data.total_projects = 0

\* The last whitespace-separated token of a name, found by position.
LastToken(s) ==
    LET ends == {i \in 1..Len(s) : ~IsSpace(s[i])}
    IN  IF ends = {} THEN <<>>
        ELSE LET e == CHOOSE i \in ends : \A j \in ends : j <= i
                 gaps == {i \in 1..e : IsSpace(s[i])}
                 b == IF gaps = {} THEN 0
                      ELSE CHOOSE i \in gaps : \A j \in gaps : j <= i
             IN  SubSeq(s, b + 1, e)

PositionIn(d, name) == CHOOSE i \in 1..Len(d) : d[i].name = name

\* sorted is the items of d ordered by last token, ties in d's order.
StablySortedBy(sorted, d) ==
    /\ Len(sorted) = Len(d)
    /\ \A i \in 1..Len(d) : \E j \in 1..Len(sorted) : sorted[j] = d[i]
    /\ \A i, j \in 1..Len(sorted) :
          i < j => StrLeq(LastToken(sorted[i].name), LastToken(sorted[j].name))
    /\ \A i, j \in 1..Len(d) :
          (i < j /\ LastToken(d[i].name) = LastToken(d[j].name))
              => PositionIn(sorted, d[i].name) < PositionIn(sorted, d[j].name)

\* rows are the rows of the entries of d, in d's order.
RowsFollow(rows, d) ==
    /\ Len(rows) = Len(d)
    /\ \A i \in 1..Len(d) :
          /\ rows[i].Name = _format_name_last_first(d[i].name)
          /\ rows[i].Total_Projects = d[i].data.total_projects
          /\ rows[i].Total_Costs = d[i].data.total_costs

\* C3: the mapping search_names_from_yaml returns holds exactly the entries
\* of the mapping it built, ordered by the last whitespace-separated token
\* of the name, entries with equal tokens in their original order; the rows
\* of both summaries are in that order.
C3_SortedByLastName ==
    /\ pc \in {"returned", "json_written", "csv_written", "done"}
          => StablySortedBy(returned, results)
    /\ "csv" \in {written[k] : k \in 1..Len(written)}
          => RowsFollow(csv_rows, returned)
    /\ "xlsx" \in {written[k] : k \in 1..Len(written)}
          => RowsFollow(xlsx_rows, returned)

\* Two sorts happened: "b b" and "a. b" tie on "b" and keep the input order
\* (the whole names would sort the other way).
C3_Witness ==
    /\ pc = "done"
    /\ Len(xlsx_rows) = 2
    /\ results[1].name = <<"b", " ", "b">>
    /\ results[2].name = <<"a", ".", " ", "b">>
    /\ returned[1].name = <<"b", " ", "b">>
    /\ returned[2].name = <<"a", ".", " ", "b">>


\* A date field holds text in the date-and-time format or in the date-only
\* format that names a real day (and a real time of day).
AcceptedDate(v) ==
    /\ v.kind = "str"
    /\ v.str.shape \in {"datetime", "date"}
    /\ v.str.y >= 1 /\ v.str.y <= 9999
    /\ v.str.m >= 1 /\ v.str.m <= 12
    /\ v.str.d >= 1 /\ v.str.d <= DaysInMonth(v.str.y, v.str.m)
    /\ v.str.hh <= 23 /\ v.str.mm <= 59 /\ v.str.ss <= 59

\* Calendar days in order, the time of day left out.
DayNumber(t) == (t.y * 12 + t.m) * 31 + t.d

ActiveOn(project, day) ==
    /\ AcceptedDate(project.start_date)
    /\ AcceptedDate(project.end_date)
    /\ DayNumber(project.start_date.str) <= DayNumber(day)
    /\ DayNumber(day) <= DayNumber(project.end_date.str)

CurrentColumnsRight(row, projects, day) ==
    LET active == SelectSeq(projects, LAMBDA q : ActiveOn(q, day))
    IN  /\ row.Current_Projects = Len(active)
        /\ row.Current_Direct_Costs =
              SeqSum([k \in 1..Len(active) |-> active[k].direct_costs.num])
        /\ row.Current_Total_Costs =
              SeqSum([k \in 1..Len(active) |-> active[k].total_costs.num])

\* C4: in each summary row, Current_Projects counts exactly the projects
\* whose start and end dates both parse under one of the two formats and
\* satisfy start <= today <= end as calendar dates, and the two Current
\* cost columns are the sums of direct_costs and total_costs over exactly
\* those projects; a project with an unparseable or empty date is left out
\* and the row is still written.
C4_CurrentlyActive ==
    /\ pc \in {"csv_written", "done"} =>
          /\ Len(csv_rows) = Len(returned)
          /\ \A i \in 1..Len(returned) :
                CurrentColumnsRight(csv_rows[i], returned[i].data.projects, today)
    /\ pc = "done" =>
          /\ Len(xlsx_rows) = Len(returned)
          /\ \A i \in 1..Len(returned) :
                CurrentColumnsRight(xlsx_rows[i], returned[i].data.projects, today)

\* Today is the last day of one project (which ends at 23:59:59) and the day
\* after the end of the other: one of two is counted, with its costs only.
C4_Witness ==
    /\ pc = "done"
    /\ today = [y |-> 2021, m |-> 6, d |-> 30]
    /\ Len(returned[1].data.projects) = 2
    /\ returned[1].data.projects[1].end_date = Str(DateTimeStr(2021, 6, 30, 23, 59, 59))
    /\ returned[1].data.projects[1].start_date = Str(DateStr(2020, 6, 30))
    /\ returned[1].data.projects[2].end_date = Str(DateStr(2020, 6, 30))
    /\ returned[1].data.projects[2].start_date = Str(DateTimeStr(2020, 1, 1, 0, 0, 0))
    /\ returned[1].data.projects[1].total_costs = Num(4)
    /\ returned[1].data.projects[2].total_costs = Num(8)
    /\ xlsx_rows[1].Current_Projects = 1
    /\ xlsx_rows[1].Current_Total_Costs = 4
    /\ csv_rows[1].Current_Direct_Costs = 1

MostRecentRight(row, projects) ==
    LET years == {projects[k].end_date.str.y :
                    k \in {j \in 1..Len(projects) : AcceptedDate(projects[j].end_date)}}
    IN  IF years = {} THEN row.Most_Recent_Year = NotAvailable
        ELSE /\ row.Most_Recent_Year.is_year
             /\ row.Most_Recent_Year.year \in years
             /\ \A y \in years : y <= row.Most_Recent_Year.year

\* C5: in each summary row, Most_Recent_Year is the year of the latest end
\* date among the projects whose end date parses under one of the two
\* formats; other end dates are skipped, and with no parseable end date (or
\* no project) the value is 'N/A'.
C5_MostRecentYear ==
    /\ pc \in {"csv_written", "done"} =>
          /\ Len(csv_rows) = Len(returned)
          /\ \A i \in 1..Len(returned) :
                MostRecentRight(csv_rows[i], returned[i].data.projects)
    /\ pc = "done" =>
          /\ Len(xlsx_rows) = Len(returned)
          /\ \A i \in 1..Len(returned) :
                MostRecentRight(xlsx_rows[i], returned[i].data.projects)

\* A date-and-time end in 2021 comes before a date-only end in 2020: the
\* year is 2021.
C5_Witness ==
    /\ pc = "done"
    /\ Len(returned[1].data.projects) = 2
    /\ returned[1].data.projects[1].end_date = Str(DateTimeStr(2021, 6, 30, 23, 59, 59))
    /\ returned[1].data.projects[2].end_date = Str(DateStr(2020, 6, 30))
    /\ csv_rows[1].Most_Recent_Year = Year(2021)
    /\ xlsx_rows[1].Most_Recent_Year = Year(2021)

ZeroSummary(data) ==
    /\ data.total_projects = 0
    /\ data.projects = <<>>
    /\ data.total_costs = 0
    /\ data.total_direct_costs = 0

\* C6: a query that fails (connection or HTTP error, undecodable body) does
\* not end the run: no exception escapes once queries are being made, the
\* failed name gets an entry with no projects and zero totals (until a later
\* query for the same name replaces it), and once the loop is over every
\* name of the list was queried and has an entry.
C6_FailureIsolated ==
    /\ responses # <<>> => (pc # "crashed" /\ exception = "")
    /\ \A i \in 1..Len(responses) :
          Failed(responses[i].kind) =>
              /\ HasKey(results, names[i])
              /\ LastQueryFor(names[i]) = i
                    => ZeroSummary(results[PositionIn(results, names[i])].data)
    /\ (pc \in {"returned", "json_written", "csv_written", "done"}
            /\ names # <<>>) =>
          /\ Len(queries) = Len(names)
          /\ Len(responses) = Len(names)
          /\ \A i \in 1..Len(names) :
                HasKey(results, names[i]) /\ HasKey(returned, names[i])

\* The first query failed, the second (another name) returned two records,
\* and the run went on to write all three files.
C6_Witness ==
    /\ pc = "done"
    /\ Len(responses) = 2
    /\ responses[1].kind = "invalid_json"
    /\ responses[2].kind = "ok" /\ responses[2].n_records = 2
    /\ names[1] # names[2]
    /\ ZeroSummary(results[1].data)
    /\ results[2].data.total_projects = 2
    /\ written = <<"json", "csv", "xlsx">>

\* The input resource is missing, is not YAML, or is YAML that is not a
\* mapping with a list under 'names'.
MalformedInput(y) ==
    \/ y.kind \in {"missing", "invalid", "null", "list", "scalar"}
    \/ y.kind = "mapping" /\ y.key \in {"absent", "null", "str", "num"}

\* C7: with a missing or malformed input resource the run ends without a
\* crash, the result mapping is empty, no query is issued and no output
\* file is written.
C7_BadInputEndsCleanly ==
    (MalformedInput(yaml_file) /\ pc # "start") =>
        /\ pc \in {"returned", "done"}
        /\ exception = ""
        /\ returned = <<>>
        /\ queries = <<>>
        /\ written = <<>>

\* C8: process_funding_data raises nothing and returns one normalized
\* project per record, whatever the records hold, a missing or null amount
\* being taken as 0.
C8_NormalizerTotal ==
    norm_out # <<>> =>
        /\ ~norm_out[1].raised
        /\ norm_out[1].project_count = Len(raw_in)
        /\ Len(norm_out[1].projects) = Len(raw_in)
        /\ \A i \in 1..Len(raw_in) :
              /\ raw_in[i].direct_cost_amt \in {Absent, Null}
                    => norm_out[1].projects[i].direct_costs = Num(0)
              /\ raw_in[i].indirect_cost_amt \in {Absent, Null}
                    => norm_out[1].projects[i].indirect_costs = Num(0)
              /\ raw_in[i].award_amount \in {Absent, Null}
                    => norm_out[1].projects[i].award_amount = Num(0)


\* Run-length encoding: the maximal runs of equal characters, in order.
RunStarts(s) == {i \in 1..Len(s) : i = 1 \/ s[i] # s[i - 1]}

RunLength(s, i) ==
    LET stops == {j \in i..Len(s) : j = Len(s) \/ s[j + 1] # s[i]}
    IN  (CHOOSE j \in stops : \A k \in stops : j <= k) - i + 1

\* The k-th run of s, as <<character, length>>.
Run(s, k) ==
    LET i == CHOOSE j \in RunStarts(s) :
                Cardinality({h \in RunStarts(s) : h < j}) = k - 1
    IN  <<s[i], RunLength(s, i)>>

Runs(s) == [k \in 1..Cardinality(RunStarts(s)) |-> Run(s, k)]

HasDoubleSpace(s) == \E i \in 1..(Len(s) - 1) : s[i] = " " /\ s[i + 1] = " "

\* C9: the name sent is the input name without its periods, each run of k
\* spaces then left with (k + 1) \div 2 spaces (every non-overlapping pair,
\* left to right, gives one space) and nothing else changed; so a run of
\* three or more spaces leaves two or more consecutive spaces in the result.
C9_CleanName ==
    clean_out # <<>> =>
        LET no_periods == SelectSeq(name_in, LAMBDA c : c # ".")
            before == Runs(no_periods)
            after == Runs(clean_out[1])
        IN  /\ \A i \in 1..Len(clean_out[1]) : clean_out[1][i] # "."
            /\ Len(after) = Len(before)
            /\ \A k \in 1..Len(before) :
                  /\ after[k][1] = before[k][1]
                  /\ after[k][2] = IF before[k][1] = " "
                                   THEN (before[k][2] + 1) \div 2
                                   ELSE before[k][2]
            /\ (\E k \in 1..Len(before) : before[k][1] = " " /\ before[k][2] >= 3)
                  => HasDoubleSpace(clean_out[1])

\* Three spaces appear once the period between them is removed; two are
\* left, and cleaning the result again would change it.
C9_Witness ==
    /\ name_in = <<"a", " ", ".", " ", " ">>
    /\ clean_out = << <<"a", " ", " ">> >>
    /\ CleanName(clean_out[1]) # clean_out[1]

\* The whitespace-separated tokens of s, found by position.
TokenStarts(s) ==
    {i \in 1..Len(s) : ~IsSpace(s[i]) /\ (i = 1 \/ IsSpace(s[i - 1]))}

TokenAt(s, i) ==
    LET stops == {j \in i..Len(s) : j = Len(s) \/ IsSpace(s[j + 1])}
    IN  SubSeq(s, i, CHOOSE j \in stops : \A k \in stops : j <= k)

Tokens(s) ==
    [k \in 1..Cardinality(TokenStarts(s)) |->
        TokenAt(s, CHOOSE j \in TokenStarts(s) :
                      Cardinality({h \in TokenStarts(s) : h < j}) = k - 1)]

\* s separates its tokens by exactly one space each and has nothing around
\* them.
SingleSpaced(s) ==
    /\ \A i \in 1..Len(s) : s[i] # "\t"
    /\ ~HasDoubleSpace(s)
    /\ s # <<>> => (s[1] # " " /\ s[Len(s)] # " ")

\* C10: a name of two or more tokens is formatted as its last token, a
\* comma and a space, then the tokens before it separated by single spaces;
\* a name of fewer tokens is returned as it is.
C10_LastFirst ==
    fmt_out # <<>> =>
        LET parts == Tokens(name_in)
            n == Len(parts)
            out == fmt_out[1]
        IN  IF n < 2 THEN out = name_in
            ELSE /\ SingleSpaced(out)
                 /\ Len(Tokens(out)) = n
                 /\ Tokens(out)[1] = Append(parts[n], ",")
                 /\ \A k \in 1..(n - 1) : Tokens(out)[k + 1] = parts[k]

\* Three tokens separated by a tab and a space.
C10_Witness ==
    /\ name_in = <<"a", "\t", "b", " ", "a">>
    /\ fmt_out = << <<"a", ",", " ", "a", " ", "b">> >>


\* A date field of a raw record holds a value: the key is there and the
\* value is not null.
Present(v) == v.kind \notin {"absent", "null"}

\* The value the fallback chain stands for: the budget field when present
\* and not null, else the general field when present and not null, else ''.
FirstPresent(budget, general) ==
    IF Present(budget) THEN budget
    ELSE IF Present(general) THEN general
    ELSE Str(EmptyStr)

\* C11: the start date (the end date) of a normalized project is the
\* record's budget-period field when that is present and not null, else its
\* project-period field when that is present and not null, else ''.
C11_DateFallback ==
    (norm_out # <<>> /\ ~norm_out[1].raised) =>
        \A i \in 1..Len(raw_in) :
            /\ norm_out[1].projects[i].start_date =
                  FirstPresent(raw_in[i].budget_start, raw_in[i].project_start_date)
            /\ norm_out[1].projects[i].end_date =
                  FirstPresent(raw_in[i].budget_end, raw_in[i].project_end_date)

\* Text in one of the two date formats.
InDateFormat(v) == v.kind = "str" /\ v.str.shape \in {"datetime", "date"}

\* C12 as stated: every start date and end date of a normalized project is
\* '' or text in the date-and-time or the date-only format.
C12_DatesCanonical ==
    (norm_out # <<>> /\ ~norm_out[1].raised) =>
        \A i \in 1..Len(norm_out[1].projects) :
            /\ norm_out[1].projects[i].start_date = Str(EmptyStr)
                  \/ InDateFormat(norm_out[1].projects[i].start_date)
            /\ norm_out[1].projects[i].end_date = Str(EmptyStr)
                  \/ InDateFormat(norm_out[1].projects[i].end_date)

NonEmptyText(v) == v.kind = "str" /\ v.str.shape # "empty"

\* got is raw text carried over as it was: the budget text when there is
\* some, else the general text when there is some; without either it is ''
\* or null.
CarriedOver(got, budget, general) ==
    /\ NonEmptyText(budget) => got = budget
    /\ (~NonEmptyText(budget) /\ NonEmptyText(general)) => got = general
    /\ (~NonEmptyText(budget) /\ ~NonEmptyText(general))
          => got \in {Str(EmptyStr), Null}

\* C12 as the code has it: every start date and end date of a normalized
\* project is the record's own text for that date, unchanged whether or not
\* it is in one of the two formats, and '' or null when the record has no
\* such text.
C12_DatesCarriedOver ==
    (norm_out # <<>> /\ ~norm_out[1].raised) =>
        /\ Len(norm_out[1].projects) = Len(raw_in)
        /\ \A i \in 1..Len(raw_in) :
              /\ CarriedOver(norm_out[1].projects[i].start_date,
                             raw_in[i].budget_start, raw_in[i].project_start_date)
              /\ CarriedOver(norm_out[1].projects[i].end_date,
                             raw_in[i].budget_end, raw_in[i].project_end_date)

\* A record whose only start text is in neither format was normalized, and
\* the text is its start date.
C12_Witness ==
    /\ norm_out # <<>> /\ ~norm_out[1].raised
    /\ Len(raw_in) = 1
    /\ raw_in[1].budget_start = Null
    /\ raw_in[1].project_start_date = Str(OtherStr)
    /\ norm_out[1].projects[1].start_date = Str(OtherStr)
    /\ norm_out[1].projects[1].end_date = Str(DateStr(2021, 6, 30))


\* C13: over a list of k names the run sends at most one query at a time,
\* the i-th for the cleaned i-th name; a query is out only while the loop
\* waits for it, every earlier query has been answered (or has failed) and
\* its name has an entry in the results before the next is sent, and once
\* the loop is over exactly k queries were sent.
C13_OneQueryAtATime ==
    /\ Len(in_flight) <= 1
    /\ Len(queries) <= Len(names)
    /\ \A i \in 1..Len(queries) : queries[i] = CleanName(names[i])
    /\ pc = "waiting" =>
          /\ in_flight = <<queries[Len(queries)]>>
          /\ Len(responses) = Len(queries) - 1
    /\ pc # "waiting" =>
          /\ in_flight = <<>>
          /\ Len(responses) = Len(queries)
    /\ \A i \in 1..(Len(queries) - 1) :
          i <= Len(responses) /\ HasKey(results, names[i])
    /\ pc \in {"returned", "json_written", "csv_written", "done"}
          => Len(queries) = Len(names)

\* The second of two queries is out: the first was answered and stored, and
\* the name sent second lost its period and a space on the way.
C13_Witness ==
    /\ pc = "waiting"
    /\ names = << <<"b", " ", " ", "a">>, <<"a", ".", " ", "b">> >>
    /\ queries = << <<"b", " ", "a">>, <<"a", " ", "b">> >>
    /\ in_flight = << <<"a", " ", "b">> >>
    /\ Len(responses) = 1
    /\ HasKey(results, names[1])
    /\ ~HasKey(results, names[2])


FileHolds(path) ==
    LET i == CHOOSE k \in 1..Len(fs) : fs[k].path = path
    IN  fs[i].holds

\* C14: in a run that writes output, whatever the input path and --output
\* are, the JSON path, the CSV path and the spreadsheet path are three
\* different paths, every file written so far is still there, and at the end
\* the JSON path holds the JSON results.
C14_DistinctOutputPaths ==
    written # <<>> =>
        LET output_file == OutputFile(args)
            summary_file == SummaryFile(output_file)
            excel_file == ExcelFile(output_file)
        IN  /\ output_file # summary_file
            /\ output_file # excel_file
            /\ summary_file # excel_file
            /\ Len(fs) = Len(written)
            /\ pc = "done" => FileHolds(output_file) = "json"

====
